---------------------------- MODULE Spec2Model ----------------------------
(***************************************************************************)
(* Release orchestration of arluxmore/ecs-bluegreen: the CDK stack        *)
(* (lib/ecs-bluegreen-stack.ts, and the two-pipeline revision of it kept   *)
(* in README.md) declares two listeners, one CodeDeploy deployment group,  *)
(* two build projects and two pipelines.  The model is the behaviour of    *)
(* the declared resources: each action is one declared stage, rule or      *)
(* operator command, acting as the platform runs it with the options the   *)
(* source sets (or leaves at their defaults).                              *)
(*                                                                         *)
(* Where the two revisions declare the same construct differently, the     *)
(* TypeScript file lib/ecs-bluegreen-stack.ts is followed; constructs that *)
(* exist only in the README.md revision (BlueBuildProject,                 *)
(* BlueDeployPipeline) are taken from there.                               *)
(***************************************************************************)
EXTENDS Integers, Sequences, FiniteSets, TLC

VARIABLES
    ctx,          \* cdk context inputs: [allowedIp, imageTag]
    stack,        \* "unsynth" | "rejected" | "deployed"
    allowedIp,    \* const allowedIp of the constructor
    greenRules,   \* rules of greenListener: set of [priority, sourceIps, target]
    greenDefault, \* default action of greenListener
    lastReq,      \* last request seen by greenListener
    lastResp,     \* and the response it got
    ssmParam,     \* SSM parameter /promote/imageTag (the PromotionRecord)
    ecr,          \* tags present in the ECR repository AppRepo
    runs,         \* pipeline executions
    nextRun,      \* next execution id
    listenerTG,   \* target group of blueListener's default rule
    tasksets,     \* task set registered in each production target group
    ctl,          \* the CodeDeploy deployment of BlueDG (traffic shift controller)
    greenTasks,   \* task set of GreenService (registered in GreenTG)
    promoted      \* history: tags that were the value of /promote/imageTag
                  \* at a moment the repository held them

cfgVars == <<ctx, stack, allowedIp, greenRules, greenDefault>>
reqVars == <<lastReq, lastResp>>
pipeVars == <<ssmParam, ecr, runs, nextRun, promoted>>
prodEnv == <<listenerTG, tasksets>>
vars == <<ctx, stack, allowedIp, greenRules, greenDefault, lastReq, lastResp,
          ssmParam, ecr, runs, nextRun, listenerTG, tasksets, ctl, greenTasks,
          promoted>>

---------------------------------------------------------------------------
(* Bounds *)

\* width of a source address in bits (an IPv4 address has 32)
AddrBits == 3
\* number of pipeline executions created in one behaviour
MaxRuns == 3
\* the same, in the behaviours in which no step fails
MaxFairRuns == 4

---------------------------------------------------------------------------
(* Values *)

RECURSIVE Pow2(_)
Pow2(n) == IF n = 0 THEN 1 ELSE 2 * Pow2(n - 1)

Addr == 0 .. (Pow2(AddrBits) - 1)
\* a request for which the listener sees no source address
NoSource == -1

\* context values: kind "missing" is tryGetContext returning undefined,
\* "cidr" is base/len, "empty" is '', "malformed" any other text
Missing == [kind |-> "missing", base |-> 0, len |-> 0]
EmptyText == [kind |-> "empty", base |-> 0, len |-> 0]
Malformed == [kind |-> "malformed", base |-> 0, len |-> 0]
CidrOf(b, l) == [kind |-> "cidr", base |-> b, len |-> l]
Cidrs == {CidrOf(b, l) : b \in Addr, l \in 0 .. AddrBits}
AnyAddress == CidrOf(0, 0)

\* image tags are character sequences; a revision is a longer one
Nginx == <<0>>
NoValue == <<>>
\* tryGetContext('imageTag') returning undefined
Undefined == <<-1>>
Rev1 == <<1, 2, 3, 4, 5, 6, 7, 8>>
Rev2 == <<2, 2, 3, 4, 5, 6, 7, 8>>
Revisions == {Rev1, Rev2}
NoRev == <<>>

NoRun == [pipeline |-> "none", trigger |-> "none", stage |-> 0,
          status |-> "NotCreated", rev |-> NoRev, tag |-> NoValue]
NoTasks == [tag |-> NoValue, health |-> "none"]
TargetGroups == {"BlueTG", "BlueGreenTG"}
RunIds == 1 .. (IF MaxRuns > MaxFairRuns THEN MaxRuns ELSE MaxFairRuns)

---------------------------------------------------------------------------
(* Stack construction *)

\* the ?? operator: only undefined (or null) takes the default
Coalesce(v, d) == IF v.kind = "missing" THEN d ELSE v

Forward(tg) == [type |-> "forward", tg |-> tg, status |-> 200,
                contentType |-> "", body |-> ""]
FixedResponse(code, ct, b) == [type |-> "fixed", tg |-> "", status |-> code,
                               contentType |-> ct, body |-> b]

GreenRule(ip) == [priority |-> 10, sourceIps |-> <<ip>>, action |-> Forward("GreenTG")]
\* a default action that forwards instead of denying
DefaultForward == Forward("GreenTG")
DefaultDeny == FixedResponse(403, "text/plain", "Access denied")

\* image of the container BlueApp of blueTaskDef: nginx:alpine for the
\* context value nginx, else the repository image with that tag
BootstrapImage(tag) == IF tag = Nginx THEN Nginx ELSE tag

\* constructor of EcsBlueGreenStack
Construct ==
    /\ stack = "unsynth"
    /\ allowedIp' = Coalesce(ctx.allowedIp, AnyAddress)
    /\ IF ctx.imageTag = Undefined
       THEN /\ stack' = "rejected"
            /\ UNCHANGED <<greenRules, greenDefault, tasksets, greenTasks>>
       ELSE /\ stack' = "deployed"
            /\ greenRules' = {GreenRule(allowedIp')}
            /\ greenDefault' = DefaultDeny
            /\ tasksets' = [tasksets EXCEPT !["BlueTG"] =
                               [tag |-> BootstrapImage(ctx.imageTag), health |-> "healthy"]]
            /\ greenTasks' = [tag |-> Nginx, health |-> "healthy"]
    /\ UNCHANGED <<ctx, reqVars, pipeVars, listenerTG, ctl>>

---------------------------------------------------------------------------
(* Routing of greenListener *)

\* one source-ip value of a condition against a request's source
InCidr(src, c) ==
    /\ c.kind = "cidr"
    /\ src \in Addr
    /\ src \div Pow2(AddrBits - c.len) = c.base \div Pow2(AddrBits - c.len)

\* ListenerCondition.sourceIps(values): any of the values
Matches(rule, src) == \E i \in 1 .. Len(rule.sourceIps) : InCidr(src, rule.sourceIps[i])

\* rules in ascending priority, first match wins, else the default action
Route(rules, default, src) ==
    LET hit == {r \in rules : Matches(r, src)}
    IN  IF hit = {} THEN default
        ELSE (CHOOSE r \in hit : \A q \in hit : r.priority <= q.priority).action

GreenRequest ==
    /\ stack = "deployed"
    /\ \E src \in Addr \cup {NoSource} :
          /\ lastReq' = [seen |-> TRUE, src |-> src]
          /\ lastResp' = Route(greenRules, greenDefault, src)
    /\ UNCHANGED <<cfgVars, pipeVars, prodEnv, ctl, greenTasks>>

---------------------------------------------------------------------------
(* Pipelines: stages and the executions moving through them *)

\* GreenDeployPipeline, the pipeline the push webhook starts
GreenStages == <<"Source", "BuildAndPush", "DeployGreen", "DeployBlue">>
\* BlueDeployPipeline, started by start-pipeline-execution only
BlueStages == <<"Source", "BuildBlue", "DeployBlue">>
Stages(p) == IF p = "green" THEN GreenStages ELSE BlueStages

Terminal == {"Succeeded", "Failed", "Superseded"}
Active(rs, r) == rs[r].status \in {"Waiting", "InProgress"}
StageOf(rs, r) ==
    IF rs[r].status = "InProgress" THEN Stages(rs[r].pipeline)[rs[r].stage] ELSE "none"
InStage(r, name) == StageOf(runs, r) = name

\* an execution is in progress in stage k of pipeline p
Occupied(rs, p, k) ==
    \E o \in RunIds : rs[o].pipeline = p /\ rs[o].status = "InProgress" /\ rs[o].stage = k
\* execution x waits to enter stage k of pipeline p
IsWaiter(rs, x, p, k) ==
    rs[x].pipeline = p /\ rs[x].status = "Waiting" /\ rs[x].stage = k - 1

\* an execution that ended: its outcome, and the stage it failed in
Ended(rec, st) == [NoRun EXCEPT !.pipeline = rec.pipeline, !.trigger = rec.trigger,
                                !.stage = IF st = "Failed" THEN rec.stage ELSE 0,
                                !.status = st]

\* r reaches the entrance of stage k without looking at who is inside
ArriveNoLock(rs, r, k) == [rs EXCEPT ![r].status = "InProgress", ![r].stage = k]
\* r waits at the entrance of an occupied stage behind whoever waits already
ArriveQueued(rs, r, k) ==
    IF Occupied(rs, rs[r].pipeline, k)
    THEN [rs EXCEPT ![r].status = "Waiting", ![r].stage = k - 1]
    ELSE [rs EXCEPT ![r].status = "InProgress", ![r].stage = k]
\* r reaches the entrance of stage k (execution mode SUPERSEDED, the default):
\* it enters a free stage, else it waits there and replaces an earlier waiter
Arrive(rs, r, k) ==
    LET p == rs[r].pipeline
    IN  IF Occupied(rs, p, k)
        THEN [x \in RunIds |->
                IF x = r THEN [rs[r] EXCEPT !.status = "Waiting", !.stage = k - 1]
                ELSE IF IsWaiter(rs, x, p, k) THEN Ended(rs[x], "Superseded")
                ELSE rs[x]]
        ELSE [rs EXCEPT ![r].status = "InProgress", ![r].stage = k]

\* stage k of p has been left: the execution waiting for it enters
Promote(rs, p, k) ==
    IF ~Occupied(rs, p, k) /\ \E w \in RunIds : IsWaiter(rs, w, p, k)
    THEN LET w == CHOOSE x \in RunIds : IsWaiter(rs, x, p, k)
         IN  [rs EXCEPT ![w].status = "InProgress", ![w].stage = k]
    ELSE rs

\* the stage r is in succeeded: r goes on to the next stage or is done
StageSucceeded(rs, r) ==
    LET p == rs[r].pipeline
        k == rs[r].stage
    IN  IF k = Len(Stages(p))
        THEN Promote([rs EXCEPT ![r] = Ended(rs[r], "Succeeded")], p, k)
        ELSE Promote(Arrive(rs, r, k + 1), p, k)

\* a failed stage that sends the execution back to its first stage
StageFailedRetry(rs, r) == [rs EXCEPT ![r].status = "InProgress", ![r].stage = 1]
\* a failed stage that lets the execution go on to the next one
StageFailedGoesOn(rs, r) == StageSucceeded(rs, r)
\* the stage r is in failed: the execution fails, nothing is retried
StageFailed(rs, r) ==
    Promote([rs EXCEPT ![r] = Ended(rs[r], "Failed")], rs[r].pipeline, rs[r].stage)

NewRun(p, trig, rev) == [NoRun EXCEPT !.pipeline = p, !.trigger = trig, !.rev = rev,
                                      !.status = "Waiting"]

\* a tag that keeps the whole revision
ShortTagWhole(rev) == rev
\* IMAGE_TAG of the staging build: the first 7 characters of the revision
ShortTag(rev) == SubSeq(rev, 1, 7)

\* a tag nobody ever built
GhostTag == <<9, 9, 9, 9, 9, 9, 9>>
PromotableTags == {ShortTag(rev) : rev \in Revisions} \cup {GhostTag}

otherVars == <<cfgVars, reqVars>>

\* a push to main: the webhook of GitHub_Source starts GreenDeployPipeline;
\* the source action of BlueDeployPipeline has trigger NONE
Push(rev) ==
    /\ stack = "deployed"
    /\ nextRun \in RunIds
    /\ runs' = Arrive([runs EXCEPT ![nextRun] = NewRun("green", "push", rev)], nextRun, 1)
    /\ nextRun' = nextRun + 1
    /\ UNCHANGED <<otherVars, ssmParam, promoted, ecr, prodEnv, ctl, greenTasks>>

\* aws ssm put-parameter --name /promote/imageTag --value t --overwrite
PutParameter(t) ==
    /\ stack = "deployed"
    /\ ssmParam' = t
    /\ promoted' = IF t \in ecr THEN promoted \cup {t} ELSE promoted
    /\ UNCHANGED <<otherVars, ecr, runs, nextRun, prodEnv, ctl, greenTasks>>

\* aws codepipeline start-pipeline-execution --name BlueDeployPipeline
StartPipelineExecution ==
    /\ stack = "deployed"
    /\ nextRun \in RunIds
    /\ runs' = Arrive([runs EXCEPT ![nextRun] = NewRun("blue", "start", NoRev)], nextRun, 1)
    /\ nextRun' = nextRun + 1
    /\ UNCHANGED <<otherVars, ssmParam, promoted, ecr, prodEnv, ctl, greenTasks>>

\* stage Source of either pipeline: GitHub_Source fetches branch main
SourceOk(r) ==
    /\ InStage(r, "Source")
    /\ runs' = StageSucceeded(runs, r)
    /\ UNCHANGED <<otherVars, ssmParam, promoted, ecr, nextRun, prodEnv, ctl, greenTasks>>

SourceFail(r) ==
    /\ InStage(r, "Source")
    /\ runs' = StageFailed(runs, r)
    /\ UNCHANGED <<otherVars, ssmParam, promoted, ecr, nextRun, prodEnv, ctl, greenTasks>>

\* stage BuildAndPush: docker build, docker push under the short tag
GreenBuild(r) ==
    /\ InStage(r, "BuildAndPush")
    /\ LET t == ShortTag(runs[r].rev)
       IN  /\ ecr' = ecr \cup {t}
           /\ promoted' = IF ssmParam = t THEN promoted \cup {t} ELSE promoted
           /\ runs' = StageSucceeded([runs EXCEPT ![r].tag = t], r)
    /\ UNCHANGED <<otherVars, ssmParam, nextRun, prodEnv, ctl, greenTasks>>

\* a command of the staging build fails (or the build times out)
GreenBuildFail(r) ==
    /\ InStage(r, "BuildAndPush")
    /\ runs' = StageFailed(runs, r)
    /\ UNCHANGED <<otherVars, ssmParam, promoted, ecr, nextRun, prodEnv, ctl, greenTasks>>

\* a production build that goes on whatever get-parameter and pull return
BlueBuildUnchecked(r) ==
    /\ InStage(r, "BuildBlue")
    /\ runs' = StageSucceeded([runs EXCEPT ![r].tag = ssmParam], r)
    /\ UNCHANGED <<otherVars, ssmParam, promoted, ecr, nextRun, prodEnv, ctl, greenTasks>>
\* a production build that pushes the image under the promoted tag
BlueBuildPush(r) ==
    /\ InStage(r, "BuildBlue")
    /\ IF ssmParam = NoValue
       THEN runs' = StageFailed(runs, r) /\ UNCHANGED ecr
       ELSE /\ ecr' = ecr \cup {ssmParam}
            /\ runs' = StageSucceeded([runs EXCEPT ![r].tag = ssmParam], r)
    /\ UNCHANGED <<otherVars, ssmParam, promoted, nextRun, prodEnv, ctl, greenTasks>>
\* stage BuildBlue: IMAGE_TAG=$(aws ssm get-parameter ...) fails when the
\* parameter does not exist, docker pull fails when the tag is not in the
\* repository, and either stops the build; else taskdef.json and appspec.yaml
\* are written for that tag; nothing is built or pushed
BlueBuild(r) ==
    /\ InStage(r, "BuildBlue")
    /\ IF ssmParam = NoValue \/ ssmParam \notin ecr
       THEN runs' = StageFailed(runs, r)
       ELSE runs' = StageSucceeded([runs EXCEPT ![r].tag = ssmParam], r)
    /\ UNCHANGED <<otherVars, ssmParam, promoted, ecr, nextRun, prodEnv, ctl, greenTasks>>

\* any other command of the production build fails (or the build times out)
BlueBuildFail(r) ==
    /\ InStage(r, "BuildBlue")
    /\ runs' = StageFailed(runs, r)
    /\ UNCHANGED <<otherVars, ssmParam, promoted, ecr, nextRun, prodEnv, ctl, greenTasks>>

\* stage DeployGreen: EcsDeployAction updates GreenService in place
DeployGreen(r) ==
    /\ InStage(r, "DeployGreen")
    /\ greenTasks' = [tag |-> runs[r].tag, health |-> "healthy"]
    /\ runs' = StageSucceeded(runs, r)
    /\ UNCHANGED <<otherVars, ssmParam, promoted, ecr, nextRun, prodEnv, ctl>>

DeployGreenFail(r) ==
    /\ InStage(r, "DeployGreen")
    /\ runs' = StageFailed(runs, r)
    /\ UNCHANGED <<otherVars, ssmParam, promoted, ecr, nextRun, prodEnv, ctl, greenTasks>>

---------------------------------------------------------------------------
(* BlueDG: the CodeDeploy blue/green deployment behind stage DeployBlue *)

OtherTG(tg) == IF tg = "BlueTG" THEN "BlueGreenTG" ELSE "BlueTG"
ShiftActive == ctl.state \in {"Provisioning", "HealthChecking", "Shifting", "RollingBack"}

\* a deployment that takes the tag from the parameter when it is created
CreateDeploymentLatest(r) ==
    /\ InStage(r, "DeployBlue")
    /\ ctl.run # r
    /\ IF ShiftActive
       THEN /\ runs' = StageFailed(runs, r)
            /\ UNCHANGED <<ctl, tasksets>>
       ELSE /\ ctl' = [state |-> "Provisioning", run |-> r, orig |-> listenerTG,
                       shadow |-> OtherTG(listenerTG), shifted |-> FALSE,
                       failedIn |-> "none"]
            /\ tasksets' = [tasksets EXCEPT ![OtherTG(listenerTG)] =
                               [tag |-> ssmParam, health |-> "starting"]]
            /\ UNCHANGED runs
    /\ UNCHANGED <<otherVars, ssmParam, promoted, ecr, nextRun, listenerTG, greenTasks>>
\* DeployToBlue creates a deployment of BlueDG from taskdef.json: the
\* replacement task set is launched against the target group the listener
\* does not use.  A deployment group runs one deployment at a time: the
\* request is refused while one is active, and the action fails.
CreateDeployment(r) ==
    /\ InStage(r, "DeployBlue")
    /\ ctl.run # r
    /\ IF ShiftActive
       THEN /\ runs' = StageFailed(runs, r)
            /\ UNCHANGED <<ctl, tasksets>>
       ELSE /\ ctl' = [state |-> "Provisioning", run |-> r, orig |-> listenerTG,
                       shadow |-> OtherTG(listenerTG), shifted |-> FALSE,
                       failedIn |-> "none"]
            /\ tasksets' = [tasksets EXCEPT ![OtherTG(listenerTG)] =
                               [tag |-> runs[r].tag, health |-> "starting"]]
            /\ UNCHANGED runs
    /\ UNCHANGED <<otherVars, ssmParam, promoted, ecr, nextRun, listenerTG, greenTasks>>

\* the replacement tasks are running and registered in the shadow target group
TasksLaunched ==
    /\ ctl.state = "Provisioning"
    /\ ctl' = [ctl EXCEPT !.state = "HealthChecking"]
    /\ UNCHANGED <<otherVars, pipeVars, prodEnv, greenTasks>>

\* the replacement tasks cannot be launched
LaunchFail ==
    /\ ctl.state = "Provisioning"
    /\ ctl' = [ctl EXCEPT !.state = "RollingBack", !.failedIn = "Provisioning"]
    /\ UNCHANGED <<otherVars, pipeVars, prodEnv, greenTasks>>

\* the shadow target group reports its tasks healthy
HealthOk ==
    /\ ctl.state = "HealthChecking"
    /\ tasksets' = [tasksets EXCEPT ![ctl.shadow].health = "healthy"]
    /\ ctl' = [ctl EXCEPT !.state = "Shifting"]
    /\ UNCHANGED <<otherVars, pipeVars, listenerTG, greenTasks>>

\* a health check that times out counted as passed
HealthTimeoutIgnored ==
    /\ ctl.state = "HealthChecking"
    /\ tasksets' = [tasksets EXCEPT ![ctl.shadow].health = "unhealthy"]
    /\ ctl' = [ctl EXCEPT !.state = "Shifting"]
    /\ UNCHANGED <<otherVars, pipeVars, listenerTG, greenTasks>>
\* the tasks do not get healthy within the timeout: the deployment fails,
\* and autoRollback.failedDeployment rolls it back
HealthTimeout ==
    /\ ctl.state = "HealthChecking"
    /\ tasksets' = [tasksets EXCEPT ![ctl.shadow].health = "unhealthy"]
    /\ ctl' = [ctl EXCEPT !.state = "RollingBack", !.failedIn = "HealthChecking"]
    /\ UNCHANGED <<otherVars, pipeVars, listenerTG, greenTasks>>

\* ALL_AT_ONCE: the default rule of blueListener is repointed in one step
ShiftTraffic ==
    /\ ctl.state = "Shifting"
    /\ ~ctl.shifted
    /\ listenerTG' = ctl.shadow
    /\ ctl' = [ctl EXCEPT !.shifted = TRUE]
    /\ UNCHANGED <<otherVars, pipeVars, tasksets, greenTasks>>

\* the deployment fails while shifting, before or after the repointing
ShiftFail ==
    /\ ctl.state = "Shifting"
    /\ ctl' = [ctl EXCEPT !.state = "RollingBack", !.failedIn = "Shifting"]
    /\ UNCHANGED <<otherVars, pipeVars, prodEnv, greenTasks>>

\* the original task set terminated before the listener was repointed
SettleEarly ==
    /\ ctl.state = "Shifting"
    /\ tasksets' = [tasksets EXCEPT ![ctl.orig] = NoTasks]
    /\ ctl' = [ctl EXCEPT !.state = "Settled"]
    /\ runs' = StageSucceeded(runs, ctl.run)
    /\ UNCHANGED <<otherVars, ssmParam, promoted, ecr, nextRun, listenerTG, greenTasks>>
\* the traffic is on the replacement: the original task set is terminated
\* and its target group left empty for the next deployment
Settle ==
    /\ ctl.state = "Shifting"
    /\ ctl.shifted
    /\ tasksets' = [tasksets EXCEPT ![ctl.orig] = NoTasks]
    /\ ctl' = [ctl EXCEPT !.state = "Settled"]
    /\ runs' = StageSucceeded(runs, ctl.run)
    /\ UNCHANGED <<otherVars, ssmParam, promoted, ecr, nextRun, listenerTG, greenTasks>>

\* rollback, first step: traffic goes back to the original target group
RollbackReroute ==
    /\ ctl.state = "RollingBack"
    /\ listenerTG # ctl.orig
    /\ listenerTG' = ctl.orig
    /\ UNCHANGED <<otherVars, pipeVars, tasksets, ctl, greenTasks>>

\* a rollback that removes the replacement wherever the listener points
RollbackCleanupEarly ==
    /\ ctl.state = "RollingBack"
    /\ tasksets' = [tasksets EXCEPT ![ctl.shadow] = NoTasks]
    /\ ctl' = [ctl EXCEPT !.state = "Idle"]
    /\ runs' = StageFailed(runs, ctl.run)
    /\ UNCHANGED <<otherVars, ssmParam, promoted, ecr, nextRun, listenerTG, greenTasks>>
\* rollback, last step: the replacement task set is deregistered and the
\* deployment, and with it the execution, ends as failed
RollbackCleanup ==
    /\ ctl.state = "RollingBack"
    /\ listenerTG = ctl.orig
    /\ tasksets' = [tasksets EXCEPT ![ctl.shadow] = NoTasks]
    /\ ctl' = [ctl EXCEPT !.state = "Idle"]
    /\ runs' = StageFailed(runs, ctl.run)
    /\ UNCHANGED <<otherVars, ssmParam, promoted, ecr, nextRun, listenerTG, greenTasks>>

---------------------------------------------------------------------------
(* Initial states *)

IdleCtl == [state |-> "Idle", run |-> 0, orig |-> "BlueTG", shadow |-> "BlueGreenTG",
            shifted |-> FALSE, failedIn |-> "none"]

InitPlatform ==
    /\ lastReq = [seen |-> FALSE, src |-> NoSource]
    /\ lastResp = FixedResponse(0, "", "")
    /\ ssmParam = NoValue
    /\ ecr = {}
    /\ promoted = {}
    /\ runs = [r \in RunIds |-> NoRun]
    /\ nextRun = 1
    /\ listenerTG = "BlueTG"
    /\ ctl = IdleCtl

\* the stack before `cdk deploy`, for every context the operator may pass
InitConfig ==
    /\ ctx \in [allowedIp : {Missing, EmptyText, Malformed} \cup Cidrs,
                imageTag : {Undefined, Nginx}]
    /\ stack = "unsynth"
    /\ allowedIp = Missing
    /\ greenRules = {}
    /\ greenDefault = FixedResponse(0, "", "")
    /\ tasksets = [tg \in TargetGroups |-> NoTasks]
    /\ greenTasks = NoTasks
    /\ InitPlatform

NextConfig == Construct \/ GreenRequest

SpecConfig == InitConfig /\ [][NextConfig]_vars

\* the context of a first deploy as the documentation gives it
FirstDeployCtx == [allowedIp |-> CidrOf(1, AddrBits), imageTag |-> Nginx]

\* the deployed stack: what Construct leaves for FirstDeployCtx
Init ==
    /\ ctx = FirstDeployCtx
    /\ stack = "deployed"
    /\ allowedIp = Coalesce(ctx.allowedIp, AnyAddress)
    /\ greenRules = {GreenRule(allowedIp)}
    /\ greenDefault = DefaultDeny
    /\ tasksets = [tg \in TargetGroups |->
                     IF tg = "BlueTG"
                     THEN [tag |-> BootstrapImage(ctx.imageTag), health |-> "healthy"]
                     ELSE NoTasks]
    /\ greenTasks = [tag |-> Nginx, health |-> "healthy"]
    /\ InitPlatform

RunStep(r) ==
    \/ SourceOk(r)
    \/ SourceFail(r)
    \/ GreenBuild(r)
    \/ GreenBuildFail(r)
    \/ BlueBuild(r)
    \/ BlueBuildFail(r)
    \/ DeployGreen(r)
    \/ DeployGreenFail(r)
    \/ CreateDeployment(r)

ShiftStep ==
    \/ TasksLaunched
    \/ LaunchFail
    \/ HealthOk
    \/ HealthTimeout
    \/ ShiftTraffic
    \/ ShiftFail
    \/ Settle
    \/ RollbackReroute
    \/ RollbackCleanup

Next ==
    \/ nextRun <= MaxRuns /\ \E rev \in Revisions : Push(rev)
    \/ \E t \in PromotableTags : PutParameter(t)
    \/ nextRun <= MaxRuns /\ StartPipelineExecution
    \/ \E r \in RunIds : RunStep(r)
    \/ ShiftStep

Spec == Init /\ [][Next]_vars

---------------------------------------------------------------------------
(* Claims on configuration and routing, checked under SpecConfig *)

\* the addresses of the configured allow-set, as the address range of its block
AllowSet ==
    IF allowedIp.kind # "cidr" THEN {}
    ELSE LET size == Pow2(AddrBits - allowedIp.len)
             lo == allowedIp.base - (allowedIp.base % size)
         IN  lo .. (lo + size - 1)

\* C4: a request to the staging listener is forwarded to the green target
\* group if and only if its source address is in the allow-set; every other
\* request, one without a source included, gets the fixed 403 text/plain
\* response and does not reach the green target group.
C4_AllowListOnly ==
    lastReq.seen =>
        IF lastReq.src \in AllowSet
        THEN lastResp.type = "forward" /\ lastResp.tg = "GreenTG"
        ELSE /\ lastResp.type = "fixed"
             /\ lastResp.status = 403
             /\ lastResp.contentType = "text/plain"
             /\ lastResp.body = "Access denied"
             /\ lastResp.tg # "GreenTG"

\* a request from the one address of a single-address allow-set was forwarded
C4_Witness ==
    /\ lastReq.seen
    /\ allowedIp.kind = "cidr"
    /\ allowedIp.len = AddrBits
    /\ lastReq.src = allowedIp.base
    /\ lastResp.type = "forward"

\* the IP-matched rule of the staging listener admits every source address
AdmitsAll == \E r \in greenRules : \A a \in Addr : Matches(r, a)

\* C5: a stack configured with a missing, empty or malformed allow-set is
\* rejected at configuration time and never ends up deployed, least of all
\* with a staging rule that admits every source address.
C5_BadAllowSetRejected ==
    (stack # "unsynth" /\ ctx.allowedIp.kind \in {"missing", "empty", "malformed"})
        => (stack = "rejected" /\ ~AdmitsAll)

---------------------------------------------------------------------------
(* Claims on the pipelines and the traffic shift, checked under Spec *)

BlueRun(r) == runs[r].pipeline = "blue"
GreenRun(r) == runs[r].pipeline = "green"

\* C1: a production run whose Building stage executes while the
\* PromotionRecord has never been written fails there: the run ends Failed
\* and stays so, it never enters Deploying, the production task sets and
\* listener are as before, and no run deploys an empty or default tag.
C1_NoPromotionNoDeploy ==
    /\ [](\A r \in RunIds :
            (BlueRun(r) /\ InStage(r, "DeployBlue"))
                => (runs[r].tag # NoValue /\ runs[r].tag \in ecr))
    /\ [](\A tg \in TargetGroups :
            tasksets[tg].health # "none" => tasksets[tg].tag # NoValue)
    /\ [][\A r \in RunIds :
            /\ (BlueRun(r) /\ InStage(r, "BuildBlue") /\ ssmParam = NoValue
                    /\ runs'[r] # runs[r])
                 => (/\ runs'[r].status = "Failed"
                     /\ runs'[r].stage = 2
                     /\ UNCHANGED <<prodEnv, ctl, ecr, ssmParam>>)
            /\ (BlueRun(r) /\ runs[r].status = "Failed") => runs'[r] = runs[r]
         ]_vars

\* a production run failed in its Building stage, nothing having been promoted
C1_Witness ==
    \E r \in RunIds :
        /\ BlueRun(r) /\ runs[r].status = "Failed" /\ runs[r].stage = 2
        /\ ssmParam = NoValue

\* C2: a push creates a run of the staging pipeline only; a production run
\* is created by an explicit start only; and no run created by a push is
\* ever in a Deploying stage against the production environment.
C2_PushNeverDeploysProduction ==
    \A r \in RunIds :
        /\ runs[r].trigger = "push" => GreenRun(r)
        /\ BlueRun(r) => runs[r].trigger = "start"
        /\ runs[r].trigger = "push" => ~InStage(r, "DeployBlue")
        /\ (ShiftActive /\ ctl.run = r) => runs[r].trigger # "push"

\* C3: a traffic shift leaves HealthChecking either healthy, for Shifting, or
\* failed, for RollingBack; on the failing path the listener keeps the target
\* group it had when the shift began, only the shadow task set is
\* deregistered, and the run ends Failed.
C3_HealthCheckFailureRollsBack ==
    /\ [](ctl.failedIn = "HealthChecking" =>
            /\ ctl.state \in {"RollingBack", "Idle"}
            /\ listenerTG = ctl.orig
            /\ ~ctl.shifted
            /\ tasksets[ctl.orig].health = "healthy"
            /\ ctl.state = "Idle" =>
                  (runs[ctl.run].status = "Failed" /\ tasksets[ctl.shadow] = NoTasks))
    /\ [][/\ (ctl.state = "HealthChecking" /\ ctl' # ctl) =>
                \/ /\ ctl'.state = "Shifting"
                   /\ tasksets'[ctl.shadow].health = "healthy"
                   /\ UNCHANGED listenerTG
                \/ /\ ctl'.state = "RollingBack"
                   /\ ctl'.failedIn = "HealthChecking"
                   /\ tasksets'[ctl.shadow].health # "healthy"
                   /\ tasksets'[ctl.orig] = tasksets[ctl.orig]
                   /\ UNCHANGED <<listenerTG, runs>>
          /\ (ctl.failedIn = "HealthChecking" /\ ctl.state = "RollingBack" /\ ctl' # ctl) =>
                /\ ctl'.state = "Idle"
                /\ tasksets'[ctl.orig] = tasksets[ctl.orig]
                /\ tasksets'[ctl.shadow] = NoTasks
                /\ runs'[ctl.run].status = "Failed"
                /\ UNCHANGED listenerTG
         ]_vars

\* a shift that failed its health check has been rolled back
C3_Witness ==
    /\ ctl.failedIn = "HealthChecking"
    /\ ctl.state = "Idle"
    /\ runs[ctl.run].status = "Failed"

ActiveRuns(p) == {r \in RunIds : runs[r].pipeline = p /\ Active(runs, r)}
Occupants(p, k) ==
    {r \in RunIds : runs[r].pipeline = p /\ runs[r].status = "InProgress"
                    /\ runs[r].stage = k}
Waiters(p, k) == {r \in RunIds : IsWaiter(runs, r, p, k)}

Created(p) ==
    /\ nextRun \in RunIds
    /\ nextRun' = nextRun + 1
    /\ runs'[nextRun].pipeline = p

---------------------------------------------------------------------------
(* Behaviours in which no step fails, every stage being run to its end *)

\* the production build, when the promoted tag is there to be pulled
BlueBuildOk(r) == BlueBuild(r) /\ runs'[r].status # "Failed"
\* the deployment request, when BlueDG accepts it
CreateDeploymentOk(r) == CreateDeployment(r) /\ runs'[r].status # "Failed"

\* the platform's part of a behaviour: stages and the shift run on their own
Progress ==
    \/ \E r \in RunIds :
          \/ SourceOk(r)
          \/ GreenBuild(r)
          \/ BlueBuildOk(r)
          \/ DeployGreen(r)
          \/ CreateDeploymentOk(r)
    \/ TasksLaunched
    \/ HealthOk
    \/ ShiftTraffic
    \/ Settle

\* (one revision is pushed, again and again)
NextNoFail ==
    \/ nextRun <= MaxFairRuns /\ Push(Rev1)
    \/ \E t \in ecr : PutParameter(t)
    \/ nextRun <= MaxFairRuns /\ StartPipelineExecution
    \/ Progress

FairSpec == Init /\ [][NextNoFail]_vars /\ WF_vars(Progress)

\* what a production run that goes through does, step by step: its build
\* takes the promoted tag, which is in the repository; it succeeds in the
\* step that settles its shift, with the listener on the former shadow
\* target group and the tasks behind it running that tag; and the listener
\* is repointed in the Shifting step only, once per shift
C9_RunSteps ==
    /\ \A r \in RunIds :
          /\ (BlueRun(r) /\ InStage(r, "BuildBlue") /\ runs'[r] # runs[r])
                => (runs'[r].tag = ssmParam /\ ssmParam \in ecr)
          /\ (BlueRun(r) /\ runs[r].status = "InProgress" /\ runs'[r].status = "Succeeded")
                => /\ ctl.run = r
                   /\ ctl.shifted
                   /\ ctl'.state = "Settled"
                   /\ listenerTG' = ctl.shadow
                   /\ listenerTG' # ctl.orig
                   /\ tasksets'[listenerTG'] = [tag |-> runs[r].tag, health |-> "healthy"]
    /\ listenerTG' # listenerTG
          => /\ ctl.state = "Shifting"
             /\ ~ctl.shifted
             /\ ctl'.shifted
             /\ listenerTG' = ctl.shadow

\* a production run is under way and the promoted tag is in the repository
Promoted(r) == BlueRun(r) /\ Active(runs, r) /\ ssmParam \in ecr

StepOf(r) == RunStep(r) \/ (ctl.run = r /\ ShiftStep)

\* C10: every step of a staging run leaves the production task sets and
\* listener unchanged, and every step of a production run leaves the staging
\* task set and listener unchanged.
C10_PipelinesShareNoTarget ==
    [][\A r \in RunIds :
          /\ (GreenRun(r) /\ StepOf(r)) => UNCHANGED <<listenerTG, tasksets>>
          /\ (BlueRun(r) /\ StepOf(r)) => UNCHANGED <<greenTasks, greenRules, greenDefault>>
      ]_vars

---------------------------------------------------------------------------
(* Claims on tags, promotion and the order of stages, checked under Spec *)

\* the staging build of r succeeds in this step
GreenBuilt(r) ==
    /\ GreenRun(r) /\ InStage(r, "BuildAndPush")
    /\ runs'[r] # runs[r]
    /\ runs'[r].status # "Failed"

\* C11: the tag the staging Building stage produces is the first 7 characters
\* of the triggering revision and depends on nothing else: it is pushed under
\* that tag, and two builds of one revision carry the same tag.
C11_TagIsRevisionPrefix ==
    /\ [](\A a, b \in RunIds :
            (GreenRun(a) /\ GreenRun(b) /\ runs[a].rev = runs[b].rev
                /\ runs[a].tag # NoValue /\ runs[b].tag # NoValue)
              => runs[a].tag = runs[b].tag)
    /\ [][\A r \in RunIds : GreenBuilt(r) =>
            /\ Len(runs'[r].tag) = 7
            /\ \A i \in 1 .. 7 : runs'[r].tag[i] = runs[r].rev[i]
            /\ runs'[r].rev = runs[r].rev
            /\ runs'[r].tag \in ecr'
            /\ ecr' = ecr \cup {runs'[r].tag}
         ]_vars

\* one revision was built twice, and both builds carry its 7-character tag
C11_Witness ==
    \E a, b \in RunIds :
        /\ a # b /\ GreenRun(a) /\ GreenRun(b)
        /\ runs[a].rev = Rev1 /\ runs[b].rev = Rev1
        /\ runs[a].tag = <<1, 2, 3, 4, 5, 6, 7>>
        /\ runs[b].tag = <<1, 2, 3, 4, 5, 6, 7>>

\* the production build of r succeeds in this step
BlueBuilt(r) ==
    /\ BlueRun(r) /\ InStage(r, "BuildBlue")
    /\ runs'[r] # runs[r]
    /\ runs'[r].status # "Failed"

\* production run r has not been through its Building stage
BeforeBuild(r) ==
    /\ BlueRun(r)
    /\ \/ runs[r].status = "InProgress" /\ runs[r].stage <= 2
       \/ runs[r].status = "Waiting" /\ runs[r].stage <= 1

\* C12: a production run deploys the value the PromotionRecord has in the
\* step its Building stage executes: until then the run holds no tag, whatever
\* was written before or after its start; the build takes the value of that
\* step; no later write changes the tag the run holds; and the task set its
\* Deploying stage launches runs that tag.
C12_DeploysValueReadAtBuild ==
    /\ [](\A r \in RunIds : BeforeBuild(r) => runs[r].tag = NoValue)
    /\ []((ShiftActive /\ BlueRun(ctl.run))
            => tasksets[ctl.shadow].tag = runs[ctl.run].tag)
    /\ [][\A r \in RunIds :
            /\ BlueBuilt(r) => (runs'[r].tag = ssmParam /\ ssmParam' = ssmParam)
            /\ (BlueRun(r) /\ runs[r].tag # NoValue /\ Active(runs', r))
                  => runs'[r].tag = runs[r].tag
            /\ (BlueRun(r) /\ InStage(r, "DeployBlue") /\ ctl.run # r /\ ctl'.run = r)
                  => tasksets'[ctl'.shadow].tag = runs[r].tag
         ]_vars

\* a production run is deploying the tag its build read, and the
\* PromotionRecord has been overwritten with another tag since
C12_Witness ==
    /\ ShiftActive
    /\ BlueRun(ctl.run)
    /\ tasksets[ctl.shadow].tag = runs[ctl.run].tag
    /\ ssmParam # NoValue
    /\ ssmParam # runs[ctl.run].tag

\* C13: no step of a production run changes the artifact store or the
\* PromotionRecord; the record changes only by an explicit put, which can
\* always be made and replaces whatever value was there.
C13_ProductionRunOnlyReads ==
    /\ [](stack = "deployed" => \A t \in PromotableTags : ENABLED PutParameter(t))
    /\ [][/\ \A r \in RunIds : (BlueRun(r) /\ StepOf(r)) => UNCHANGED <<ecr, ssmParam>>
          /\ \A r \in RunIds : BlueBuilt(r) => UNCHANGED <<ecr, ssmParam>>
          /\ ssmParam' # ssmParam =>
                /\ \E t \in PromotableTags : PutParameter(t) /\ ssmParam' = t
                /\ UNCHANGED <<ecr, runs, prodEnv, ctl, greenTasks>>
         ]_vars

\* a production run is past its Building stage, which pulled the promoted
\* tag: the repository holds what staging pushed and the record is as put
C13_Witness ==
    \E r \in RunIds :
        /\ BlueRun(r) /\ Active(runs, r) /\ runs[r].stage >= 2
        /\ runs[r].tag = ShortTag(Rev2)
        /\ ssmParam = ShortTag(Rev2)
        /\ ecr = {ShortTag(Rev2)}

\* run r is in Sourcing or Building and the stage fails in this step
FailsEarly(r) ==
    \/ SourceFail(r)
    \/ GreenBuildFail(r)
    \/ BlueBuildFail(r)
    \/ BlueBuild(r) /\ (ssmParam = NoValue \/ ssmParam \notin ecr)

\* both environments: task sets and listener bindings
bothEnvs == <<listenerTG, tasksets, greenTasks, greenRules, greenDefault>>

\* C14: a run of either pipeline that fails in Sourcing or Building becomes
\* Failed in that stage and stays so, without ever having entered Deploying;
\* neither the failing step nor any step the run took in those stages changes
\* the task sets or listener bindings of either environment.
C14_EarlyFailureTouchesNothing ==
    /\ [](\A r \in RunIds :
            (runs[r].status = "Failed" /\ runs[r].stage <= 2) => ctl.run # r)
    /\ [][\A r \in RunIds :
            /\ FailsEarly(r) =>
                  /\ runs'[r].status = "Failed"
                  /\ runs'[r].stage = runs[r].stage
                  /\ runs'[r].stage <= 2
                  /\ UNCHANGED <<bothEnvs, ctl>>
            /\ (runs[r].status = "InProgress" /\ runs[r].stage <= 2 /\ RunStep(r))
                  => UNCHANGED <<bothEnvs, ctl>>
            /\ runs[r].status = "Failed" => runs'[r] = runs[r]
         ]_vars

\* a staging run failed in Sourcing or Building and a production run failed
\* in Building on a promoted tag the repository does not hold; production is
\* as it was deployed
C14_Witness ==
    \E g, b \in RunIds :
        /\ GreenRun(g) /\ runs[g].status = "Failed" /\ runs[g].stage <= 2
        /\ BlueRun(b) /\ runs[b].status = "Failed" /\ runs[b].stage = 2
        /\ ssmParam = GhostTag
        /\ listenerTG = "BlueTG"
        /\ tasksets["BlueGreenTG"] = NoTasks
        /\ ctl = IdleCtl

\* where an execution is on its way: 0 waiting to enter the first stage
\* (Pending), 2k - 1 in stage k, 2k waiting to enter stage k + 1
Position(rec) ==
    IF rec.status = "InProgress" THEN 2 * rec.stage - 1 ELSE 2 * rec.stage

\* the way run r goes in one step: one position forward (into the stage it
\* waited for, or to the entrance of the next stage), or out of a stage
\* straight into the next, or to an end: Succeeded out of the last stage,
\* Failed out of any stage, and no run is created in a step in which one fails
ForwardStep(r) ==
    LET old == runs[r]
        new == runs'[r]
    IN  /\ old.status \in Terminal => new = old
        /\ (Active(runs, r) /\ new # old) =>
              /\ new.pipeline = old.pipeline
              /\ new.status # "NotCreated"
              /\ new.status = "InProgress" =>
                    /\ new.stage \in 1 .. Len(Stages(old.pipeline))
                    /\ Position(new) > Position(old)
                    /\ Position(new) <= Position(old) + 2
                    /\ old.status = "Waiting" => Position(new) = Position(old) + 1
              /\ new.status = "Waiting" =>
                    /\ old.status = "InProgress"
                    /\ Position(new) = Position(old) + 1
              /\ new.status = "Succeeded" =>
                    /\ old.status = "InProgress"
                    /\ old.stage = Len(Stages(old.pipeline))
              /\ new.status = "Failed" =>
                    /\ old.status = "InProgress"
                    /\ new.stage = old.stage
                    /\ nextRun' = nextRun
              /\ new.status = "Superseded" => old.status = "Waiting"
        /\ (old.status = "NotCreated" /\ new # old) =>
              /\ r = nextRun
              /\ Position(new) \in {0, 1}
              /\ new.status \in {"Waiting", "InProgress"}

---------------------------------------------------------------------------
(* Behaviours in which the operator may stop a deployment that is under way *)

\* aws deploy stop-deployment on the deployment of BlueDG (or the stop of
\* the execution that waits for it).  autoRollback names failedDeployment
\* only, and stoppedDeployment defaults to false: a stopped deployment is
\* not rolled back.  It ends where it is, the listener as it was at that
\* moment; a replacement task set that has no traffic is left or removed.
StopDeployment ==
    /\ ctl.state \in {"Provisioning", "HealthChecking", "Shifting"}
    /\ ctl' = [ctl EXCEPT !.state = "Stopped", !.failedIn = "Aborted"]
    /\ runs' = StageFailed(runs, ctl.run)
    /\ \E removed \in BOOLEAN :
          tasksets' = IF removed /\ listenerTG # ctl.shadow
                      THEN [tasksets EXCEPT ![ctl.shadow] = NoTasks]
                      ELSE tasksets
    /\ UNCHANGED <<otherVars, ssmParam, promoted, ecr, nextRun, listenerTG, greenTasks>>

NextAbort == Next \/ StopDeployment

SpecAbort == Init /\ [][NextAbort]_vars

\* C15: an abort of a production run in Deploying takes the rollback path of
\* a health-check failure: the controller goes to RollingBack, and when the
\* rollback is over the shadow task set is deregistered, the listener is on
\* the target group that was live before, and the run is Failed.
C15_AbortRollsBack ==
    /\ []((ctl.failedIn = "Aborted" /\ BlueRun(ctl.run)) =>
            /\ ctl.state \in {"RollingBack", "Idle"}
            /\ ctl.state = "Idle" =>
                  /\ listenerTG = ctl.orig
                  /\ tasksets[ctl.shadow] = NoTasks
                  /\ runs[ctl.run].status = "Failed")
    /\ [][(StopDeployment /\ BlueRun(ctl.run)) => ctl'.state = "RollingBack"]_vars

---------------------------------------------------------------------------
(* The tag live in production, checked under Spec *)

\* the tag of the task set behind the production listener's default rule
LiveTag == tasksets[listenerTG].tag

\* C17: the tag of the production environment's live task set is the
\* bootstrap image or a tag that was, at some earlier moment, the value of
\* the PromotionRecord while the artifact store held it; a tag staging built
\* that was never promoted is never live in production.
C17_LiveTagWasPromoted ==
    \/ LiveTag = BootstrapImage(ctx.imageTag)
    \/ LiveTag \in promoted

=============================================================================
